---------------------------- MODULE Spec2Model ----------------------------
(***************************************************************************)
(* A model of subway_structure.py: the reconstruction of a city's rail     *)
(* network (stations, stop areas, routes, route masters, transfers) from   *)
(* tagged map elements, and its validation against the expected totals.    *)
(*                                                                         *)
(* Elements are records whose fields are the keys of the element's dict;   *)
(* a key that is absent from the dict is absent from the record.  Tag      *)
(* values are non-empty strings, so Python's truth test of a tag value is  *)
(* the test against None.  Coordinates are integers, in metres of a local  *)
(* plane at the equator (cos of the latitude is 1 there), so that the       *)
(* distance of two points is compared by its square.                       *)
(***************************************************************************)
EXTENDS Integers, Sequences, FiniteSets, TLC

VARIABLES
    input,            \* the element stream handed to City.add, in order
    expect,           \* the expectation record City.__init__ reads from its row
    elements,         \* city.elements: el_id -> element
    order,            \* the insertion order of city.elements (its iteration order)
    masters,          \* city.masters: el_id of a route -> its route_master relation
    stop_areas,       \* city.stop_areas: el_id -> list of stop_area relations
    areas,            \* the StopArea objects indexed in city.stations, by StopArea.id
    stations,         \* city.stations: el_id -> list of StopArea (by id)
    station_ids,      \* city.station_ids
    stops_and_platforms, \* city.stops_and_platforms
    routes,           \* city.routes: key -> RouteMaster
    transfers,        \* city.transfers
    errors,           \* city.errors
    warnings,         \* city.warnings
    used_entrances,   \* the module's global used_entrances
    found,            \* the found_* and unused_* attributes validate sets
    seen,             \* el_ids of the relations the second loop of extract_routes has visited
    built,            \* the Route objects constructed so far, in order, with the key they were filed under
    calls,            \* how many times validate has been called on the built city
    pc                \* where the driver is: ingest, extract, routes, built, validated, raised

vars == <<input, expect, elements, order, masters, stop_areas, areas, stations,
          station_ids, stops_and_platforms, routes, transfers, errors, warnings,
          used_entrances, found, seen, built, calls, pc>>

-----------------------------------------------------------------------------
(* Python values *)

None == "<None>"

\* None where the value is otherwise a dict (an element), and where it is a point
NoElement == [type |-> None]

NoCenter == <<>>

Has(d, k) == k \in DOMAIN d

\* dict.get(k, default)
Get(d, k, default) == IF k \in DOMAIN d THEN d[k] ELSE default

\* d[k] = v on a dict
Put(d, k, v) == [x \in DOMAIN d \cup {k} |-> IF x = k THEN v ELSE d[x]]

\* del d[k]
Del(d, k) == [x \in DOMAIN d \ {k} |-> d[x]]

EmptyDict == [x \in {} |-> None]

RECURSIVE FoldSeq(_, _, _)
FoldSeq(Op(_, _), acc, s) ==
    IF s = <<>> THEN acc ELSE FoldSeq(Op, Op(acc, Head(s)), Tail(s))

InSeq(x, s) == \E i \in 1..Len(s) : s[i] = x

Range(s) == {s[i] : i \in 1..Len(s)}

-----------------------------------------------------------------------------
(* Module constants *)

MODES == <<"subway", "light_rail", "monorail">>

MAX_DISTANCE_NEARBY == 150

CONSTRUCTION_KEYS == <<"construction", "proposed", "construction:railway", "proposed:railway">>

\* ALLOWED_STATIONS_MISMATCH = 0.02 and ALLOWED_TRANSFERS_MISMATCH = 0.07, as fractions
ALLOWED_STATIONS_MISMATCH == <<2, 100>>

ALLOWED_TRANSFERS_MISMATCH == <<7, 100>>

-----------------------------------------------------------------------------
(* Module functions *)

TypeChar(t) == CASE t = "node" -> "n" [] t = "way" -> "w" [] t = "relation" -> "r"

\* el_id of an element (key id) or of a relation member (key ref)
el_id(el) == TypeChar(el.type) \o ToString(IF Has(el, "id") THEN el.id ELSE el.ref)

Tags(el) == Get(el, "tags", EmptyDict)

Tag(el, k) == Get(Tags(el), k, None)

\* el_center: <<lon, lat>> or None (NoCenter)
el_center(el) ==
    IF Has(el, "lat") THEN <<el.lon, el.lat>>
    ELSE IF Has(el, "center") THEN
        IF /\ el.center.lat = 0
           /\ el.type = "relation"
           /\ Has(el, "tags")
           /\ \/ Tag(el, "type") = "route_master"
              \/ Tag(el, "public_transport") = "stop_area_group"
        THEN NoCenter
        ELSE <<el.center.lon, el.center.lat>>
    ELSE NoCenter

\* distance(p1, p2) <= limit, for two points that are not None
Within(p1, p2, limit) ==
    (p1[1] - p2[1]) * (p1[1] - p2[1]) + (p1[2] - p2[2]) * (p1[2] - p2[2]) <= limit * limit

\* city.error(message, el) and city.warn(message, el): the message with its
\* format arguments and the el_id of the element it is attributed to
Msg(text, arg, el) == <<text, arg, el>>

Error(log, text, arg, el) == [log EXCEPT !.errors = Append(@, Msg(text, arg, el))]

Warn(log, text, arg, el) == [log EXCEPT !.warnings = Append(@, Msg(text, arg, el))]

\* "if cond: city.error(...)" and "if cond: city.warn(...)"
ErrorIf(cond, log, text, arg, el) == IF cond THEN Error(log, text, arg, el) ELSE log

WarnIf(cond, log, text, arg, el) == IF cond THEN Warn(log, text, arg, el) ELSE log

HasConstructionKey(tags) == \E i \in 1..Len(CONSTRUCTION_KEYS) : Has(tags, CONSTRUCTION_KEYS[i])

-----------------------------------------------------------------------------
(* class Station *)

get_modes(el) ==
    (IF Tag(el, "station") = None THEN {} ELSE {Tag(el, "station")})
    \cup {m \in Range(MODES) : Tag(el, m) = "yes"}

is_station(el) ==
    /\ Tag(el, "railway") \in {"station", "halt"}
    /\ ~HasConstructionKey(Tags(el))
    /\ get_modes(el) \cap Range(MODES) # {}

\* Station.__init__ on an element that is_station: the object, and the log
StationInit(el, log) ==
    [st  |-> [id |-> el_id(el),
              modes |-> get_modes(el),
              name |-> Get(Tags(el), "name", "?"),
              int_name |-> Get(Tags(el), "int_name", Tag(el, "name:en")),
              colour |-> Tag(el, "colour"),
              center |-> el_center(el)],
     log |-> WarnIf(el.type # "node", log, "Station is not a node", None, el_id(el)),
     raised |-> el_center(el) = NoCenter]

-----------------------------------------------------------------------------
(* class StopArea *)

is_stop_or_platform(el) ==
    /\ Has(el, "tags")
    /\ \/ Tag(el, "railway") = "platform"
       \/ Tag(el, "public_transport") \in {"platform", "stop_position"}

\* One member m of the stop_area relation, in StopArea.__init__'s loop over
\* stop_area['members'].  acc holds the sets collected so far and the log.
StopAreaMember(acc, m, station, stop_area, els) ==
    LET k == el_id(m) IN
    IF ~(Has(els, k) /\ Has(els[k], "tags")) THEN acc
    ELSE LET m_el == els[k] IN
        IF is_station(m_el) THEN
            IF k # station.id
            THEN [acc EXCEPT !.log = Error(@, "Stop area has multiple stations", None, el_id(stop_area))]
            ELSE acc
        ELSE IF is_stop_or_platform(m_el) THEN
            [acc EXCEPT !.stops_and_platforms = @ \cup {k}]
        ELSE IF Tag(m_el, "railway") = "subway_entrance" THEN
            [acc EXCEPT
                !.log = IF m_el.type # "node"
                        THEN Warn(@, "Subway entrance is not a node", None, el_id(m_el))
                        ELSE @,
                !.entrances = IF Tag(m_el, "entrance") # "exit" /\ m.role # "exit_only"
                              THEN @ \cup {k} ELSE @,
                !.exits = IF Tag(m_el, "entrance") # "entrance" /\ m.role # "entry_only"
                          THEN @ \cup {k} ELSE @]
        ELSE IF Tag(m_el, "railway") \in {"rail"} \cup Range(MODES) THEN
            IF ~acc.warned_about_tracks
            THEN [acc EXCEPT !.log = Error(@, "Tracks in a stop_area relation", None, el_id(stop_area)),
                             !.warned_about_tracks = TRUE]
            ELSE acc
        ELSE acc

\* One element c_el of city.elements, in StopArea.__init__'s scan for the
\* stop positions and entrances near a station that has no stop_area relation.
StopAreaNearby(acc, c_el, station) ==
    LET c_id == el_id(c_el)
        c_center == el_center(c_el)
    IN
    IF ~Has(c_el, "tags") \/ c_center = NoCenter THEN acc
    ELSE IF is_stop_or_platform(c_el) THEN
        IF ~Has(Tags(c_el), "station") /\ Within(station.center, c_center, MAX_DISTANCE_NEARBY)
        THEN [acc EXCEPT !.stops_and_platforms = @ \cup {c_id}]
        ELSE acc
    ELSE IF Tag(c_el, "railway") = "subway_entrance" THEN
        IF Within(station.center, c_center, MAX_DISTANCE_NEARBY) THEN
            [acc EXCEPT
                !.log = IF c_el.type # "node"
                        THEN Warn(@, "Subway entrance is not a node", None, c_id)
                        ELSE @,
                !.entrances = IF Tag(c_el, "entrance") # "exit" THEN @ \cup {c_id} ELSE @,
                !.exits = IF Tag(c_el, "entrance") # "entrance" THEN @ \cup {c_id} ELSE @]
        ELSE acc
    ELSE acc

RECURSIVE SumCenters(_, _)
\* the sum of the centers of the elements ids names, those without a center skipped
SumCenters(ids, els) ==
    IF ids = {} THEN <<0, 0>>
    ELSE LET sp == CHOOSE x \in ids : TRUE
             rest == SumCenters(ids \ {sp}, els)
             spc == el_center(els[sp])
         IN IF spc = NoCenter THEN rest ELSE <<rest[1] + spc[1], rest[2] + spc[2]>>

\* The center of a StopArea: the point sum / n, kept as the sum and the divisor
StopAreaCenter(station, sps, els) ==
    IF Cardinality(sps) = 0
    THEN [sum |-> station.center, n |-> 1]
    ELSE [sum |-> SumCenters(sps, els), n |-> Cardinality(sps)]

\* The elements of a stop area without its exits
get_elements_but_exits(sa) ==
    {sa.id, sa.station} \cup sa.entrances \cup sa.stops_and_platforms

\* StopArea.get_elements
get_elements(sa) ==
    {sa.id, sa.station} \cup sa.entrances \cup sa.exits \cup sa.stops_and_platforms

\* StopArea.__init__, from the check of the exits and entrances to its end: acc
\* holds what the loop over the members, or over the elements nearby, collected
StopAreaFinish(acc, station, stop_area, at, els) ==
    [sa |-> [id |-> at,
             stop_area |-> IF stop_area # NoElement THEN at ELSE None,
             station |-> station.id,
             stops_and_platforms |-> acc.stops_and_platforms,
             exits |-> acc.exits,
             entrances |-> acc.entrances,
             center |-> StopAreaCenter(station, acc.stops_and_platforms, els),
             modes |-> station.modes,
             name |-> Get(Tags(stop_area), "name", station.name),
             int_name |-> Get(Tags(stop_area), "int_name",
                              Get(Tags(stop_area), "name:en", station.int_name)),
             colour |-> Get(Tags(stop_area), "colour", station.colour)],
     log |-> ErrorIf(acc.entrances # {} /\ acc.exits = {},
                     ErrorIf(acc.exits # {} /\ acc.entrances = {}, acc.log,
                             "Only exits for a station, no entrances", None, at),
                     "No exits for a station", None, at)]

\* what StopArea.__init__ has collected before its loop
StopAreaStart(log) ==
    [stops_and_platforms |-> {}, entrances |-> {}, exits |-> {},
     warned_about_tracks |-> FALSE, log |-> log]

\* StopArea.__init__(station, city, stop_area); stop_area is a relation or None
\* (NoElement, which has no tags).  els and ord are city.elements and its
\* iteration order.  The object and the log.
StopAreaInit(station, els, ord, stop_area, log) ==
    IF stop_area # NoElement
    THEN StopAreaFinish(FoldSeq(LAMBDA a, m : StopAreaMember(a, m, station, stop_area, els),
                                StopAreaStart(log), stop_area.members),
                        station, stop_area, el_id(stop_area), els)
    ELSE StopAreaFinish(FoldSeq(LAMBDA a, k : StopAreaNearby(a, els[k], station),
                                StopAreaStart(log), ord),
                        station, stop_area, station.id, els)

-----------------------------------------------------------------------------
(* class Route *)

is_route(el) ==
    /\ el.type = "relation"
    /\ Tag(el, "type") = "route"
    /\ Has(el, "members")
    /\ Tag(el, "route") \in Range(MODES)
    /\ ~HasConstructionKey(Tags(el))
    /\ (Has(Tags(el), "ref") \/ Has(Tags(el), "name"))

get_network(relation) == Get(Tags(relation), "network", Tag(relation, "operator"))

\* A stop handling that appends the stop area whether or not the route holds it
RouteStopAppendsAlways(acc, st, is_circle, mode, relation, sas) ==
    IF acc.enough_stops THEN acc
    ELSE [acc EXCEPT !.stops = Append(@, st)]

\* A stop handling without the loop closure: every stop area that comes back in
\* a route without circular=yes is a Duplicate stop
RouteStopNeverCloses(acc, st, is_circle, mode, relation, sas) ==
    IF ~InSeq(st, acc.stops) \/ is_circle THEN
        [acc EXCEPT !.stops = Append(@, st)]
    ELSE
        [acc EXCEPT !.log = Error(@, "Duplicate stop in route - check stop/platform order",
                                  sas[st].name, relation)]

\* A stop handling that closes the loop of a route with circular=yes as it does
\* that of any other route
RouteStopClosesCircular(acc, st, is_circle, mode, relation, sas) ==
    IF acc.enough_stops THEN acc
    ELSE IF ~InSeq(st, acc.stops) THEN
        [acc EXCEPT !.stops = Append(@, st)]
    ELSE IF acc.stops[1] = st THEN
        [acc EXCEPT !.enough_stops = TRUE]
    ELSE
        [acc EXCEPT !.log = Error(@, "Duplicate stop in route - check stop/platform order",
                                  sas[st].name, relation)]

\* Route.__init__, a member that resolves to the stop area st (an id of areas):
\* the body of "if not self.stops or self.stops[-1] != st".  acc holds
\* self.stops, enough_stops and the log.
RouteStop(acc, st, is_circle, mode, relation, sas) ==
    IF acc.enough_stops THEN
        IF ~InSeq(st, acc.stops)
        THEN [acc EXCEPT !.log = Error(@, "Inconsistent platform-stop in route", sas[st].name, relation)]
        ELSE acc
    ELSE IF ~InSeq(st, acc.stops) \/ is_circle THEN
        [acc EXCEPT !.stops = Append(@, st),
                    !.log = IF mode \notin sas[st].modes
                            THEN Warn(@, "station in route of another mode", sas[st].name, relation)
                            ELSE @]
    ELSE IF acc.stops[1] = st /\ ~acc.enough_stops THEN
        [acc EXCEPT !.enough_stops = TRUE]
    ELSE
        [acc EXCEPT !.log = Error(@, "Duplicate stop in route - check stop/platform order",
                                  sas[st].name, relation)]

RECURSIVE ConstructionErrors(_, _, _, _)
\* "for k in CONSTRUCTION_KEYS: if k in el['tags']: city.error(...); continue":
\* one error for each construction key of the element
ConstructionErrors(log, keys, m, el) ==
    IF keys = <<>> THEN log
    ELSE ConstructionErrors(
            IF Has(Tags(el), Head(keys))
            THEN Error(log, "An under construction stop or platform in route", m.role, el_id(el))
            ELSE log,
            Tail(keys), m, el)

\* Route.__init__, a member with role stop or platform that is an element of
\* the city and no stop area
RouteUnconnected(log, m, el, mode, relation) ==
    LET log1 == ConstructionErrors(log, CONSTRUCTION_KEYS, m, el) IN
    IF Tag(el, "railway") \in {"station", "halt"}
    THEN Error(log1, "Missing station=mode on a stop or platform", mode, el_id(el))
    ELSE Error(log1, "is not connected to a station in route", el_id(m), relation)

\* Route.__init__: one member m of relation['members'].  A member that follows
\* the raise is not looked at.
RouteMember(acc, m, is_circle, mode, relation, sts, sas, els) ==
    LET k == el_id(m) IN
    IF acc.raised THEN acc
    ELSE IF Has(sts, k) THEN
        LET st_list == sts[k]
            st == st_list[1]
            acc1 == IF Len(st_list) > 1
                    THEN [acc EXCEPT !.log = Error(@, "Ambigous station in route", sas[st].name, relation)]
                    ELSE acc
        IN IF acc1.stops = <<>> \/ acc1.stops[Len(acc1.stops)] # st
           THEN RouteStop(acc1, st, is_circle, mode, relation, sas)
           ELSE acc1
    ELSE IF ~Has(els, k) THEN
        IF m.role \in {"stop", "platform"}
        THEN [acc EXCEPT !.log = Error(@, "for route relation is not in the dataset", k, relation),
                         !.raised = TRUE]
        ELSE acc
    ELSE LET el == els[k] IN
        IF ~Has(el, "tags")
        THEN [acc EXCEPT !.log = Error(@, "Untagged object in a route", None, relation)]
        ELSE LET acc1 == IF m.role \in {"stop", "platform"}
                         THEN [acc EXCEPT !.log = RouteUnconnected(@, m, el, mode, relation)]
                         ELSE acc
             IN IF Tag(el, "railway") \in {"rail", "subway", "light_rail", "monorail"}
                THEN IF Has(el, "nodes")
                     THEN [acc1 EXCEPT !.rails = Append(@, <<el.nodes[1], el.nodes[Len(el.nodes)]>>)]
                     ELSE [acc1 EXCEPT !.log = Error(@, "Cannot find nodes in a railway", None, el_id(el))]
                ELSE acc1

\* the first i in from..Len(rails) whose rail shares no end node with the rail
\* before it, or 0
RECURSIVE RailHole(_, _)
RailHole(rails, i) ==
    IF i > Len(rails) THEN 0
    ELSE IF \E a \in 1..2, b \in 1..2 : rails[i][a] = rails[i-1][b]
         THEN RailHole(rails, i + 1)
         ELSE i

\* Route.__init__, from the end of the loop over the members to its end: acc
\* holds what the loop collected.  Nothing of it runs after the raise.
RouteFinish(relation, acc) ==
    [route |-> [id |-> el_id(relation),
                element |-> relation,
                ref |-> Get(relation.tags, "ref", Get(relation.tags, "name", None)),
                name |-> Get(relation.tags, "name", None),
                colour |-> Get(relation.tags, "colour", None),
                network |-> get_network(relation),
                mode |-> relation.tags["route"],
                rails |-> acc.rails,
                stops |-> acc.stops],
     enough_stops |-> acc.enough_stops,
     raised |-> acc.raised,
     log |-> IF acc.raised THEN acc.log
             ELSE WarnIf(RailHole(acc.rails, 2) # 0,
                         ErrorIf(acc.stops = <<>>, acc.log, "Route has no stops", None, el_id(relation)),
                         "Hole in route rails", None, el_id(relation))]

\* Route.__init__, before the loop over the members
RouteStart(relation, log) ==
    [stops |-> <<>>, rails |-> <<>>, enough_stops |-> FALSE, raised |-> FALSE,
     log |-> WarnIf(~Has(relation.tags, "colour"),
                    WarnIf(~Has(relation.tags, "ref"), log,
                           "Missing ref on a route", None, el_id(relation)),
                    "Missing colour on a route", None, el_id(relation))]

\* Route.__init__(relation, city) for a relation that is_route.  sts, sas and
\* els are city.stations, the stop areas and city.elements.  The object, the
\* value of enough_stops when the constructor ends, and the log.
RouteInit(relation, sts, sas, els, log) ==
    RouteFinish(relation,
                FoldSeq(LAMBDA a, m : RouteMember(a, m, Tag(relation, "circular") = "yes",
                                                  relation.tags["route"], el_id(relation),
                                                  sts, sas, els),
                        RouteStart(relation, log), relation.members))

-----------------------------------------------------------------------------
(* class RouteMaster *)

RECURSIVE Digits(_)
\* str(n) of a natural number, as the sequence of its decimal digits
Digits(n) == IF n < 10 THEN <<n>> ELSE Append(Digits(n \div 10), n % 10)

RECURSIVE LexLess(_, _)
\* a < b for two strings, given as sequences of character codes
LexLess(a, b) ==
    IF b = <<>> THEN FALSE
    ELSE IF a = <<>> THEN TRUE
    ELSE IF Head(a) # Head(b) THEN Head(a) < Head(b)
    ELSE LexLess(Tail(a), Tail(b))

\* self.id > route.id for the el_ids of two relations, "r" + str(id): Python
\* compares the strings, so that "r10" < "r9"
IdGreater(master_id, route_id) == LexLess(Digits(route_id), Digits(master_id))

\* RouteMaster.__init__(master); master is a route_master relation or None
\* (NoElement).  id_number is the number in self.id, an el_id "r<number>".
RouteMasterInit(master) ==
    IF master # NoElement THEN
        [routes |-> <<>>, best |-> None, id |-> el_id(master), id_number |-> master.id,
         has_master |-> TRUE,
         ref |-> Get(Tags(master), "ref", Tag(master, "name")),
         colour |-> Tag(master, "colour"),
         network |-> get_network(master),
         mode |-> Tag(master, "route_master"),
         name |-> Tag(master, "name")]
    ELSE
        [routes |-> <<>>, best |-> None, id |-> None, id_number |-> 0,
         has_master |-> FALSE,
         ref |-> None, colour |-> None, network |-> None, mode |-> None, name |-> None]

\* the Route self.best refers to; self.best is the id of a member of self.routes
BestRoute(rm) == CHOOSE r \in Range(rm.routes) : r.id = rm.best

\* "not self.best": Route defines __len__, so that a Route without stops is false
NotBest(rm) == rm.best = None \/ Len(BestRoute(rm).stops) = 0

\* RouteMaster.add, "if not self.network: ... elif ...".  s holds the
\* RouteMaster and the log.
MergeNetwork(s, route) ==
    IF s.rm.network = None THEN [s EXCEPT !.rm.network = route.network]
    ELSE [s EXCEPT !.log = ErrorIf(route.network # None /\ route.network # s.rm.network, @,
                                   "Route has different network from master",
                                   route.network, route.id)]

\* RouteMaster.add, "if not self.colour: ... elif ..."
MergeColour(s, route) ==
    IF s.rm.colour = None THEN [s EXCEPT !.rm.colour = route.colour]
    ELSE [s EXCEPT !.log = WarnIf(route.colour # None /\ route.colour # s.rm.colour, @,
                                  "Route has different colour from master",
                                  route.colour, route.id)]

\* RouteMaster.add, "if not self.ref: ... elif ..."
MergeRef(s, route) ==
    IF s.rm.ref = None THEN [s EXCEPT !.rm.ref = route.ref]
    ELSE [s EXCEPT !.log = WarnIf(route.ref # s.rm.ref, @,
                                  "Route has different ref from master", route.ref, route.id)]

\* RouteMaster.add, "if not self.name: ..."
MergeName(s, route) ==
    IF s.rm.name = None THEN [s EXCEPT !.rm.name = route.name] ELSE s

\* RouteMaster.add, "if not self.has_master and (not self.id or self.id > route.id)"
MergeId(rm, route) ==
    IF ~rm.has_master /\ (rm.id = None \/ IdGreater(rm.id_number, route.element.id))
    THEN [rm EXCEPT !.id = route.id, !.id_number = route.element.id]
    ELSE rm

\* RouteMaster.add, "if not self.best or len(route.stops) > len(self.best.stops)"
BetterThanBest(rm, route) == NotBest(rm) \/ Len(route.stops) > Len(BestRoute(rm).stops)

\* RouteMaster.add, after the check of the mode: the id, routes and best
RouteMasterAppend(rm, route) ==
    [MergeId(rm, route) EXCEPT !.routes = Append(@, route),
                               !.best = IF BetterThanBest(rm, route) THEN route.id ELSE @]

\* A check of the mode that reports the Route whose mode differs and appends it
MergeModeAppendsAnyway(s, route) ==
    IF s.rm.mode = None
    THEN [s EXCEPT !.rm = RouteMasterAppend([@ EXCEPT !.mode = route.mode], route)]
    ELSE [s EXCEPT !.log = ErrorIf(route.mode # s.rm.mode, @,
                                   "Incompatible PT mode: master has and route has",
                                   route.mode, route.id),
                   !.rm = RouteMasterAppend(@, route)]

\* RouteMaster.add, "if not self.mode: ... elif route.mode != self.mode: ... return"
\* and what follows it
MergeMode(s, route) ==
    IF s.rm.mode = None
    THEN [s EXCEPT !.rm = RouteMasterAppend([@ EXCEPT !.mode = route.mode], route)]
    ELSE IF route.mode # s.rm.mode
    THEN [s EXCEPT !.log = Error(@, "Incompatible PT mode: master has and route has",
                                 route.mode, route.id)]
    ELSE [s EXCEPT !.rm = RouteMasterAppend(@, route)]

\* RouteMaster.add(route, city): the RouteMaster and the log
RouteMasterAdd(rm, route, log) ==
    MergeMode(MergeName(MergeRef(MergeColour(MergeNetwork([rm |-> rm, log |-> log], route),
                                             route), route), route), route)

-----------------------------------------------------------------------------
(* class City: add *)

\* City.add, a route_master relation: one member m
AddMasterMember(acc, m, el) ==
    IF m.type = "relation" THEN
        [acc EXCEPT !.masters = Put(@, el_id(m), el),
                    !.log = ErrorIf(Has(acc.masters, el_id(m)), @,
                                    "Route in two route_masters", None, el_id(m))]
    ELSE acc

\* City.add, a stop_area relation: one member m
AddStopAreaMember(acc, m, el) ==
    LET stop_area == Get(acc.stop_areas, el_id(m), <<>>) IN
    IF InSeq(el, stop_area) THEN
        [acc EXCEPT !.stop_areas = Put(@, el_id(m), stop_area),
                    !.log = IF ~acc.warned_about_duplicates
                            THEN Warn(@, "Duplicate element in a stop area", None, el_id(el))
                            ELSE @,
                    !.warned_about_duplicates = TRUE]
    ELSE [acc EXCEPT !.stop_areas = Put(@, el_id(m), Append(stop_area, el))]

\* City.add, what it leaves in self.masters, self.stop_areas and the log
CityAddSet(acc) ==
    /\ masters' = acc.masters
    /\ stop_areas' = acc.stop_areas
    /\ errors' = acc.log.errors
    /\ warnings' = acc.log.warnings

\* City.add(el)
CityAdd ==
    /\ pc = "ingest"
    /\ input # <<>>
    /\ input' = Tail(input)
    /\ IF Head(input).type = "relation" /\ ~Has(Head(input), "members") THEN
           UNCHANGED <<elements, order, masters, stop_areas, errors, warnings>>
       ELSE
           /\ elements' = Put(elements, el_id(Head(input)), Head(input))
           /\ order' = IF Has(elements, el_id(Head(input))) THEN order
                       ELSE Append(order, el_id(Head(input)))
           /\ IF Head(input).type = "relation" /\ Has(Head(input), "tags")
              THEN IF Tag(Head(input), "type") = "route_master"
                   THEN CityAddSet(FoldSeq(LAMBDA a, m : AddMasterMember(a, m, Head(input)),
                                           [masters |-> masters, stop_areas |-> stop_areas,
                                            log |-> [errors |-> errors, warnings |-> warnings]],
                                           Head(input).members))
                   ELSE IF Tag(Head(input), "public_transport") = "stop_area"
                   THEN CityAddSet(FoldSeq(LAMBDA a, m : AddStopAreaMember(a, m, Head(input)),
                                           [masters |-> masters, stop_areas |-> stop_areas,
                                            log |-> [errors |-> errors, warnings |-> warnings],
                                            warned_about_duplicates |-> FALSE],
                                           Head(input).members))
                   ELSE UNCHANGED <<masters, stop_areas, errors, warnings>>
              ELSE UNCHANGED <<masters, stop_areas, errors, warnings>>
    /\ UNCHANGED <<expect, areas, stations, station_ids, stops_and_platforms, routes,
                   transfers, used_entrances, found, seen, built, calls, pc>>

-----------------------------------------------------------------------------
(* class City: extract_routes, the stations *)

RECURSIVE IndexElements(_, _, _)
\* "for st_el in station.get_elements(): self.stations[st_el].append(station)"
IndexElements(sts, ids, sa) ==
    IF ids = {} THEN sts
    ELSE LET st_el == CHOOSE x \in ids : TRUE
         IN IndexElements(Put(sts, st_el, Append(Get(sts, st_el, <<>>), sa)), ids \ {st_el}, sa)

RECURSIVE CheckSingleStopArea(_, _)
\* "for sp in station.stops_and_platforms": a warning for each one that another
\* stop area holds already; acc holds city.stops_and_platforms and the log
CheckSingleStopArea(acc, sps) ==
    IF sps = {} THEN acc
    ELSE LET sp == CHOOSE x \in sps : TRUE
         IN CheckSingleStopArea(
                IF sp \in acc.stops_and_platforms
                THEN [acc EXCEPT !.log = Warn(@, "A stop or a platform belongs to multiple stations, might be correct", sp, None)]
                ELSE [acc EXCEPT !.stops_and_platforms = @ \cup {sp}],
                sps \ {sp})

\* extract_routes, "if station.id not in processed_stop_areas": the StopArea is
\* indexed; chk holds city.stops_and_platforms and the log after the check
IndexStopArea(acc, sa, chk) ==
    [acc EXCEPT !.processed_stop_areas = @ \cup {sa.id},
                !.areas = Put(@, sa.id, sa),
                !.stations = IndexElements(@, get_elements(sa), sa.id),
                !.stops_and_platforms = chk.stops_and_platforms,
                !.log = chk.log]

\* A loop body that indexes every StopArea built, processed or not
ExtractStopAreaAgain(acc, sa) ==
    IndexStopArea(acc, sa,
                  CheckSingleStopArea([stops_and_platforms |-> acc.stops_and_platforms,
                                       log |-> acc.log],
                                      sa.stops_and_platforms))

\* extract_routes, "for station in stations": one StopArea built for the station
ExtractStopArea(acc, sa) ==
    IF sa.id \in acc.processed_stop_areas THEN acc
    ELSE IndexStopArea(acc, sa,
                       CheckSingleStopArea([stops_and_platforms |-> acc.stops_and_platforms,
                                            log |-> acc.log],
                                           sa.stops_and_platforms))

\* "stations.append(StopArea(st, self, sa))"
StopAreaListed(done, one) == [list |-> Append(done.list, one.sa), log |-> one.log]

\* StopArea(st, self, sa) for each sa of a list of stop_area relations, after
\* those of done: the objects in order, and the log
StopAreasOf(st, els, ord, sas, done) ==
    FoldSeq(LAMBDA d, sa : StopAreaListed(d, StopAreaInit(st, els, ord, sa, d.log)), done, sas)

\* extract_routes, the first loop, for a station st whose StopAreas built_sas are built
ExtractBuiltAreas(acc, st, built_sas) ==
    FoldSeq(ExtractStopArea,
            [acc EXCEPT !.station_ids = @ \cup {st.id}, !.log = built_sas.log],
            built_sas.list)

\* extract_routes, the first loop, for a station s that Station.__init__ built
ExtractStationAreas(acc, s, els, ord, sa_rels) ==
    IF s.raised THEN [acc EXCEPT !.log = s.log, !.raised = TRUE]
    ELSE ExtractBuiltAreas(acc, s.st,
                           StopAreasOf(s.st, els, ord, Get(sa_rels, s.st.id, <<NoElement>>),
                                       [list |-> <<>>, log |-> s.log]))

\* extract_routes, the first loop: one element el of self.elements
ExtractStation(acc, el, els, ord, sa_rels) ==
    IF acc.raised \/ ~is_station(el) THEN acc
    ELSE ExtractStationAreas(acc, StationInit(el, acc.log), els, ord, sa_rels)

\* extract_routes, what its first loop leaves in the city
ExtractStationsSet(acc) ==
    /\ areas' = acc.areas
    /\ stations' = acc.stations
    /\ station_ids' = acc.station_ids
    /\ stops_and_platforms' = acc.stops_and_platforms
    /\ errors' = acc.log.errors
    /\ warnings' = acc.log.warnings
    /\ pc' = IF acc.raised THEN "raised" ELSE "routes"

\* extract_routes, from its start to the end of the loop that extracts the stations
ExtractStations ==
    /\ pc = "ingest"
    /\ input = <<>>
    /\ ExtractStationsSet(
           FoldSeq(LAMBDA a, k : ExtractStation(a, elements[k], elements, order, stop_areas),
                   [processed_stop_areas |-> {}, areas |-> areas, stations |-> stations,
                    station_ids |-> station_ids,
                    stops_and_platforms |-> stops_and_platforms,
                    log |-> [errors |-> errors, warnings |-> warnings],
                    raised |-> FALSE],
                   order))
    /\ UNCHANGED <<input, expect, elements, order, masters, stop_areas, routes, transfers,
                   used_entrances, found, seen, built, calls>>

-----------------------------------------------------------------------------
(* class City: extract_routes, the routes and the transfers *)

(***************************************************************************)
(* The route relations and the stop_area_group relations of city.elements  *)
(* are drawn when the second loop of extract_routes reaches them: City.add *)
(* only files them in city.elements, and nothing before that loop reads a  *)
(* relation of either kind.  Any order of them is an order of the dict.    *)
(***************************************************************************)

\* "if self.networks: ... continue": the route is skipped for its network
SkippedForNetwork(el, nets, ms) ==
    /\ nets # {}
    /\ get_network(el) \notin nets
    /\ (IF Has(ms, el_id(el)) THEN get_network(ms[el_id(el)]) ELSE None) \notin nets

\* the key under which extract_routes files a route
MasterKey(route, ms) == IF Has(ms, route.id) THEN el_id(ms[route.id]) ELSE route.ref

\* extract_routes, "if len(self.routes[k]) == 0: del self.routes[k]", after
\* the RouteMaster of key k became added.rm
StoreMaster(rts, k, added) ==
    [routes |-> IF Len(added.rm.routes) = 0 THEN Del(rts, k) ELSE Put(rts, k, added.rm),
     log |-> added.log]

\* the RouteMaster of a route: self.routes[k], or a new one of its master relation
MasterOf(rts, route, ms) ==
    IF Has(rts, MasterKey(route, ms)) THEN rts[MasterKey(route, ms)]
    ELSE RouteMasterInit(Get(ms, route.id, NoElement))

\* extract_routes, "self.routes[k].add(route, self)" with the lines around it:
\* the RouteMaster is made if the key is new, and deleted if it stays empty
FileRoute(rts, route, ms, log) ==
    StoreMaster(rts, MasterKey(route, ms), RouteMasterAdd(MasterOf(rts, route, ms), route, log))

\* extract_routes, what the body of the second loop leaves in the city after
\* Route.__init__ gave r and the Route was filed, which gave f
RouteFiled(r, f) ==
    /\ routes' = f.routes
    /\ errors' = f.log.errors
    /\ warnings' = f.log.warnings
    /\ pc' = IF r.raised THEN "raised" ELSE pc

\* A loop body that files the Route whose construction raised
RouteBuiltFilesAnyway(el, r) ==
    /\ built' = [route |-> r.route, enough_stops |-> r.enough_stops, raised |-> r.raised,
                 is_circle |-> Tag(el, "circular") = "yes"]
    /\ RouteFiled(r, FileRoute(routes, r.route, masters, r.log))

\* extract_routes, the body of the second loop from "route = Route(el, self)":
\* r is what Route.__init__ gave.  built keeps the Route that was built last.
RouteBuilt(el, r) ==
    /\ built' = [route |-> r.route, enough_stops |-> r.enough_stops, raised |-> r.raised,
                 is_circle |-> Tag(el, "circular") = "yes"]
    /\ IF r.raised
       THEN RouteFiled(r, [routes |-> routes, log |-> r.log])
       ELSE RouteFiled(r, FileRoute(routes, r.route, masters, r.log))

\* extract_routes, the second loop: one element el that is_route
ExtractRoute(el) ==
    /\ pc = "routes"
    /\ is_route(el)
    /\ el_id(el) \notin seen
    /\ seen' = seen \cup {el_id(el)}
    /\ IF SkippedForNetwork(el, expect.networks, masters)
       THEN UNCHANGED <<routes, errors, warnings, built, pc>>
       ELSE RouteBuilt(el, RouteInit(el, stations, areas, elements,
                                     [errors |-> errors, warnings |-> warnings]))
    /\ UNCHANGED <<input, expect, elements, order, masters, stop_areas, areas, stations,
                   station_ids, stops_and_platforms, transfers, used_entrances, found, calls>>

\* City.make_transfer(sag): the new value of self.transfers
make_transfer(trs, sag, sts) ==
    LET transfer == {sts[el_id(sag.members[i])][1] :
                        i \in {j \in 1..Len(sag.members) : Has(sts, el_id(sag.members[j]))}}
    IN IF Cardinality(transfer) > 1 THEN Append(trs, transfer) ELSE trs

\* extract_routes, the second loop: one element el that is a stop_area_group
ExtractTransfer(el) ==
    /\ pc = "routes"
    /\ el.type = "relation"
    /\ Tag(el, "public_transport") = "stop_area_group"
    /\ el_id(el) \notin seen
    /\ seen' = seen \cup {el_id(el)}
    /\ transfers' = make_transfer(transfers, el, stations)
    /\ UNCHANGED <<input, expect, elements, order, masters, stop_areas, areas, stations,
                   station_ids, stops_and_platforms, routes, errors, warnings,
                   used_entrances, found, built, calls, pc>>

\* the stop areas of the stop sequences of all routes of all route masters
UsedStopAreas(rts) ==
    UNION {UNION {Range(rts[k].routes[i].stops) : i \in 1..Len(rts[k].routes)} : k \in DOMAIN rts}

\* A filter that drops the transfers of fewer than two stop areas and leaves
\* the others as they are
FilterTransfersKeepsUnused(trs, used_stop_areas) ==
    SelectSeq(trs, LAMBDA tr : Cardinality(tr \cap used_stop_areas) > 1)

\* extract_routes, "Filter transfers, leaving only stations that belong to routes"
FilterTransfers(trs, used_stop_areas) ==
    LET new_tr(i) == trs[i] \cap used_stop_areas
        keep == {i \in 1..Len(trs) : Cardinality(new_tr(i)) > 1}
        RECURSIVE Kept(_)
        Kept(i) == IF i > Len(trs) THEN <<>>
                   ELSE (IF i \in keep THEN <<new_tr(i)>> ELSE <<>>) \o Kept(i + 1)
    IN Kept(1)

\* extract_routes, from the end of its second loop to its return
FinishExtract ==
    /\ pc = "routes"
    /\ transfers' = FilterTransfers(transfers, UsedStopAreas(routes))
    /\ pc' = "built"
    /\ UNCHANGED <<input, expect, elements, order, masters, stop_areas, areas, stations,
                   station_ids, stops_and_platforms, routes, errors, warnings,
                   used_entrances, found, seen, built, calls>>

-----------------------------------------------------------------------------
(* class City: validate *)

\* "0 <= num / den <= limit" for den # 0, the limit given as a fraction.  The
\* quotient of two integers of this size and the limit round to doubles in the
\* order of the exact values, so the test is the test of the exact values.
InBand(num, den, limit) ==
    /\ num * den >= 0
    /\ IF den > 0 THEN num * limit[2] <= limit[1] * den
                  ELSE num * limit[2] >= limit[1] * den

\* validate, the found stations against the expected ones: what is emitted.
\* The division by num_stations raises ZeroDivisionError when it is 0.
StationsVerdict(found_stations, num_stations) ==
    IF found_stations = num_stations THEN "none"
    ELSE IF num_stations = 0 THEN "raise"
    ELSE IF InBand(num_stations - found_stations, num_stations, ALLOWED_STATIONS_MISMATCH)
    THEN "warn"
    ELSE "error"

\* validate, the found interchanges against the expected ones: what is emitted
InterchangesVerdict(found_interchanges, num_interchanges) ==
    IF found_interchanges = num_interchanges THEN "none"
    ELSE IF \/ num_interchanges = 0
            \/ InBand(num_interchanges - found_interchanges, num_interchanges,
                      ALLOWED_TRANSFERS_MISMATCH)
    THEN "warn"
    ELSE "error"

\* validate, the stations no stop of a route of a route master belongs to
UnusedStations(ids, rts, sas) == ids \ {sas[st].station : st \in UsedStopAreas(rts)}

\* count_unused_entrances, "stop_areas": the members of the stop_area relations
StopAreaMembers(els) ==
    UNION {{el_id(els[k].members[i]) : i \in 1..Len(els[k].members)} :
              k \in {x \in DOMAIN els : /\ els[x].type = "relation"
                                        /\ Has(els[x], "tags")
                                        /\ Tag(els[x], "public_transport") = "stop_area"
                                        /\ Has(els[x], "members")}}

\* count_unused_entrances, the nodes tagged railway=subway_entrance
EntranceNodes(els) ==
    {k \in DOMAIN els : /\ els[k].type = "node"
                        /\ Has(els[k], "tags")
                        /\ Tag(els[k], "railway") = "subway_entrance"}

\* count_unused_entrances: the entrances it adds to used_entrances
UsedEntrances(els, sts) == {i \in EntranceNodes(els) : Has(sts, i)}

\* count_unused_entrances, "not_in_sa" and "unused"
NotInStopAreas(els) == EntranceNodes(els) \ StopAreaMembers(els)

UnusedEntrances(els, sts) == {i \in NotInStopAreas(els) : ~Has(sts, i)}

\* City.count_unused_entrances.  v holds the attributes validate has set, the
\* log and used_entrances.
count_unused_entrances(v, els, sts) ==
    [v EXCEPT
        !.found = Put(Put(@, "unused_entrances", Cardinality(UnusedEntrances(els, sts))),
                      "entrances_not_in_stop_areas", Cardinality(NotInStopAreas(els))),
        !.log = WarnIf(NotInStopAreas(els) # {},
                       ErrorIf(UnusedEntrances(els, sts) # {}, @,
                               "Found entrances not used in routes or stop_areas",
                               Cardinality(UnusedEntrances(els, sts)), None),
                       "subway entrances are not in stop_area relations",
                       Cardinality(NotInStopAreas(els)), None),
        !.used_entrances = @ \cup UsedEntrances(els, sts)]

\* validate, from its start to the call of count_unused_entrances; n is the
\* number of unused stations
ValidateUnused(v, n) ==
    IF n # 0
    THEN [v EXCEPT !.found = Put(@, "unused_stations", n),
                   !.log = Warn(@, "unused stations", n, None)]
    ELSE v

\* validate, the found lines against the expected ones
ValidateLines(v, found_lines, found_light_lines, ex) ==
    [v EXCEPT
        !.found = Put(Put(@, "found_light_lines", found_light_lines), "found_lines", found_lines),
        !.log = ErrorIf(found_light_lines # ex.num_light_lines,
                        ErrorIf(found_lines # ex.num_lines, @,
                                "Found subway lines, expected", found_lines, None),
                        "Found light rail lines, expected", found_light_lines, None)]

\* A check of the stations that reports the mismatch on the first call only
ValidateStationsOnce(v, found_stations, verdict) ==
    [v EXCEPT
        !.found = Put(@, "found_stations", found_stations),
        !.log = IF Has(v.found, "found_stations") THEN @
                ELSE WarnIf(verdict = "warn",
                            ErrorIf(verdict = "error", @,
                                    "Found stations in routes, expected", found_stations, None),
                            "Found stations in routes, expected", found_stations, None),
        !.raised = verdict = "raise"]

\* validate, the found stations against the expected ones
ValidateStations(v, found_stations, verdict) ==
    [v EXCEPT
        !.found = Put(@, "found_stations", found_stations),
        !.log = WarnIf(verdict = "warn",
                       ErrorIf(verdict = "error", @,
                               "Found stations in routes, expected", found_stations, None),
                       "Found stations in routes, expected", found_stations, None),
        !.raised = verdict = "raise"]

\* validate, the found interchanges against the expected ones
ValidateInterchanges(v, found_interchanges, verdict) ==
    IF v.raised THEN v
    ELSE [v EXCEPT
            !.found = Put(@, "found_interchanges", found_interchanges),
            !.log = WarnIf(verdict = "warn",
                           ErrorIf(verdict = "error", @,
                                   "Found interchanges, expected", found_interchanges, None),
                           "Found interchanges, expected", found_interchanges, None)]

\* validate, the networks of the route masters: str() of each, counted
ValidateNetworks(v, networks, ex) ==
    IF v.raised THEN v
    ELSE [v EXCEPT
            !.found = Put(@, "found_networks", Cardinality(networks)),
            !.log = WarnIf(Cardinality(networks) >
                               (IF Cardinality(ex.networks) > 1 THEN Cardinality(ex.networks) ELSE 1),
                           @, "More than one network", Cardinality(networks), None)]

FoundLightLines(rts) == Cardinality({k \in DOMAIN rts : rts[k].mode # "subway"})

FoundStations(ids, rts, sas) == Cardinality(ids) - Cardinality(UnusedStations(ids, rts, sas))

\* City.validate with the expectations ex: the attributes it sets, the log,
\* used_entrances, and whether it raised
ValidateCity(ex) ==
    ValidateNetworks(
      ValidateInterchanges(
        ValidateStations(
          ValidateLines(
            count_unused_entrances(
              ValidateUnused([found |-> found,
                              log |-> [errors |-> errors, warnings |-> warnings],
                              used_entrances |-> used_entrances, raised |-> FALSE],
                             Cardinality(UnusedStations(station_ids, routes, areas))),
              elements, stations),
            Cardinality(DOMAIN routes) - FoundLightLines(routes), FoundLightLines(routes), ex),
          FoundStations(station_ids, routes, areas),
          StationsVerdict(FoundStations(station_ids, routes, areas), ex.num_stations)),
        Len(transfers), InterchangesVerdict(Len(transfers), ex.num_interchanges)),
      {routes[k].network : k \in DOMAIN routes}, ex)

-----------------------------------------------------------------------------
(* The bounds of the model and the inputs *)

\* the longest member list of the route relation whose walk is explored
MaxMembers == 4

\* the number of route relations of a city
MaxRoutes == 2

\* the largest number of route relations of one ref
MaxSameRef == 3

\* the largest expected number of stations
MaxExpected == 2

\* the number of calls of validate on a built city
MaxCalls == 2

Node(id, lon, lat, tags) == [type |-> "node", id |-> id, lon |-> lon, lat |-> lat, tags |-> tags]

Way(id, nodes, tags) == [type |-> "way", id |-> id, nodes |-> nodes, tags |-> tags]

Relation(id, members, tags) == [type |-> "relation", id |-> id, members |-> members, tags |-> tags]

Member(type, ref, role) == [type |-> type, ref |-> ref, role |-> role]

StationTags(name, mode) == [railway |-> "station", station |-> mode, name |-> name]

(***************************************************************************)
(* The elements of the city whose routes are explored.  Stations A (n1)    *)
(* and B (n2) are 200 m apart, and the stop position n5 is within 150 m of *)
(* both, so that it belongs to the stop areas of both; station C (n3) is a *)
(* light rail station.  n6 is a station under construction, n7 has no      *)
(* tags, n8 is a stop position far from any station.  w1 and w2 are rails  *)
(* that meet in node 12, w3 is a rail apart from them.  r8 is a            *)
(* route_master relation, master.  No element n9 exists.                   *)
(***************************************************************************)
RouteWorld(master) ==
    << Node(1, 0, 0, StationTags("A", "subway")),
       Node(2, 200, 0, StationTags("B", "subway")),
       Node(3, 2000, 0, StationTags("C", "light_rail")),
       Node(5, 100, 0, [public_transport |-> "stop_position"]),
       Node(6, 5000, 0, [railway |-> "station", station |-> "subway", construction |-> "yes"]),
       [type |-> "node", id |-> 7, lon |-> 7000, lat |-> 0],
       Node(8, 9000, 0, [public_transport |-> "stop_position"]),
       Way(1, <<11, 12>>, [railway |-> "rail"]),
       Way(2, <<12, 13>>, [railway |-> "rail"]),
       Way(3, <<20, 21>>, [railway |-> "subway"]),
       master >>

\* the route_master relation of a city: of route r1 and with the tag
\* route_master, of route r1 and without the tag, or of no route
Masters ==
    { Relation(8, <<Member("relation", 1, "")>>,
               [type |-> "route_master", route_master |-> "subway", network |-> "Metro"]),
      Relation(8, <<Member("relation", 1, "")>>, [type |-> "route_master"]),
      Relation(8, <<>>, [type |-> "route_master"]) }

\* all sequences over S of length at most n
SeqUpTo(S, n) == UNION {[1..k -> S] : k \in 0..n}

\* the members of the route relation whose walk is explored
WalkMembers ==
    { Member("node", 1, "stop"), Member("node", 2, "stop"), Member("node", 3, "stop"),
      Member("node", 5, "platform"), Member("node", 6, "stop"), Member("way", 1, "") }

\* the route relations whose walk is explored
WalkRelations ==
    { Relation(3, ms, [type |-> "route", route |-> "subway", ref |-> "M1", colour |-> "red"] @@ c) :
        ms \in SeqUpTo(WalkMembers, MaxMembers),
        c \in {EmptyDict, [circular |-> "yes"]} }

\* the route relations of a city: without stops or with the stops A and B, of
\* either mode and ref and of any network, and one whose member n9 is missing
LineRelations ==
    { Relation(id, ms, [type |-> "route", route |-> mode, ref |-> ref, colour |-> "red"] @@ net) :
        id \in 1..MaxRoutes,
        ms \in {<<>>, <<Member("node", 1, "stop"), Member("node", 2, "stop")>>},
        mode \in {"subway", "light_rail"},
        ref \in {"M1", "M2"},
        net \in {EmptyDict, [network |-> "Metro"], [network |-> "Tram"]} }
    \cup
    { Relation(id, <<Member("node", 2, "stop"), Member("node", 9, "stop")>>,
               [type |-> "route", route |-> "subway", ref |-> "M1", colour |-> "red"]) :
        id \in 1..MaxRoutes }

\* the route relations of a city that share the ref M1: with the stops A and
\* B, of either mode and of any network
SameRefRelations ==
    { Relation(id, <<Member("node", 1, "stop"), Member("node", 2, "stop")>>,
               [type |-> "route", route |-> mode, ref |-> "M1", colour |-> "red"] @@ net) :
        id \in 1..MaxSameRef,
        mode \in {"subway", "light_rail"},
        net \in {EmptyDict, [network |-> "Metro"], [network |-> "Tram"]} }

\* the subway entrance of the city whose entrances are explored, element 30:
\* a node 50 m from station A, with or without the tag entrance=exit, or one
\* that is a platform too; a way with a center 50 m from station A; a node far
\* from every station
Entrances ==
    { Node(30, 50, 0, [railway |-> "subway_entrance"]),
      Node(30, 50, 0, [railway |-> "subway_entrance", entrance |-> "exit"]),
      Node(30, 50, 0, [railway |-> "subway_entrance", public_transport |-> "platform"]),
      [type |-> "way", id |-> 30, nodes |-> <<31, 32>>, center |-> [lon |-> 50, lat |-> 0],
       tags |-> [railway |-> "subway_entrance"]],
      Node(30, 9000, 0, [railway |-> "subway_entrance"]) }

\* the stop_area relations of that city: none, one of station C and the
\* entrance in some role, one that lists the two stations A and B, or one of
\* station C, its stop position and its platform that has no center
StopAreaRelations(entrance) ==
    {<<>>} \cup
    { << Relation(40, <<Member("node", 3, ""), Member(entrance.type, 30, role)>>,
                  [public_transport |-> "stop_area", name |-> "C"]) >> :
        role \in {"", "exit_only", "entry_only"} } \cup
    { << Relation(40, <<Member("node", a, ""), Member("node", 3 - a, "")>>,
                  [public_transport |-> "stop_area", name |-> "AB"]) >> :
        a \in {1, 2} } \cup
    { << Relation(40, <<Member("node", 3, ""), Member("node", 35, ""), Member("way", 36, "")>>,
                  [public_transport |-> "stop_area", name |-> "C"]) >> }

\* the elements of the city whose entrances are explored: the stations A, B
\* and C, a stop position and a platform within 150 m of C, a platform that
\* is a way without a center, the entrance and the stop_area relations
CityWorld(entrance, stop_area_relations) ==
    << Node(1, 0, 0, StationTags("A", "subway")),
       Node(2, 200, 0, StationTags("B", "subway")),
       Node(3, 2000, 0, StationTags("C", "light_rail")),
       Node(35, 2100, 0, [public_transport |-> "stop_position"]),
       Node(37, 2040, 60, [railway |-> "platform"]),
       Way(36, <<38, 39>>, [railway |-> "platform"]),
       entrance >> \o stop_area_relations

\* the route relations of that city: a subway line of A and B, a light rail
\* line of C
CityLines ==
    { Relation(1, <<Member("node", 1, "stop"), Member("node", 2, "stop")>>,
               [type |-> "route", route |-> "subway", ref |-> "M1", colour |-> "red",
                network |-> "Metro"]),
      Relation(2, <<Member("node", 3, "stop")>>,
               [type |-> "route", route |-> "light_rail", ref |-> "T1", colour |-> "blue"]) }

\* the stop_area_group relations of a city
Groups ==
    { Relation(21, <<Member("node", 1, ""), Member("node", 2, ""), Member("node", 3, "")>>,
               [public_transport |-> "stop_area_group"]),
      Relation(22, <<Member("node", 1, ""), Member("node", 9, "")>>,
               [public_transport |-> "stop_area_group"]) }

\* the expected totals of a city
Totals ==
    [num_stations : 0..MaxExpected, num_lines : 0..1, num_light_lines : 0..1,
     num_interchanges : 0..1]

-----------------------------------------------------------------------------
(* class City: validate, the action *)

(***************************************************************************)
(* City.__init__ sets the expected totals, and only validate reads them:   *)
(* they are drawn when validate first reads them and kept in expect.       *)
(***************************************************************************)
\* what validate leaves in the city, and in used_entrances
ValidateSet(v) ==
    /\ found' = v.found
    /\ errors' = v.log.errors
    /\ warnings' = v.log.warnings
    /\ used_entrances' = v.used_entrances
    /\ pc' = IF v.raised THEN "raised" ELSE "built"

Validate ==
    /\ pc = "built"
    /\ calls < MaxCalls
    /\ \E ex \in IF Has(expect, "num_stations") THEN {expect} ELSE {t @@ expect : t \in Totals} :
        /\ expect' = ex
        /\ ValidateSet(ValidateCity(ex))
    /\ calls' = calls + 1
    /\ UNCHANGED <<input, elements, order, masters, stop_areas, areas, stations,
                   station_ids, stops_and_platforms, routes, transfers, seen, built>>

-----------------------------------------------------------------------------
(* The specifications *)

NoRoute == [route |-> [id |-> None, element |-> NoElement, stops |-> <<>>], enough_stops |-> FALSE,
            raised |-> FALSE, is_circle |-> FALSE]

\* City.__init__ of a city with the acceptable networks nets, before the
\* elements of world are added to it
InitCity(world, nets) ==
    /\ input = world
    /\ expect = [networks |-> nets]
    /\ elements = EmptyDict
    /\ order = <<>>
    /\ masters = EmptyDict
    /\ stop_areas = EmptyDict
    /\ areas = EmptyDict
    /\ stations = EmptyDict
    /\ station_ids = {}
    /\ stops_and_platforms = {}
    /\ routes = EmptyDict
    /\ transfers = <<>>
    /\ errors = <<>>
    /\ warnings = <<>>
    /\ used_entrances = {}
    /\ found = EmptyDict
    /\ seen = {}
    /\ built = NoRoute
    /\ calls = 0
    /\ pc = "ingest"

\* A city with route relations, route masters and stop_area_groups
Init == \E master \in Masters : InitCity(RouteWorld(master), {})

ExtractRoutes == \E el \in LineRelations : ExtractRoute(el)

ExtractTransfers == \E el \in Groups : ExtractTransfer(el)

Next ==
    \/ CityAdd
    \/ ExtractStations
    \/ ExtractRoutes
    \/ FinishExtract

Spec == Init /\ [][Next]_vars

\* The walk of Route.__init__ over the members of one route relation
InitRoute == InitCity(RouteWorld(Relation(8, <<>>, [type |-> "route_master"])), {})

WalkRoute == \E el \in WalkRelations : seen = {} /\ ExtractRoute(el)

NextRoute ==
    \/ CityAdd
    \/ ExtractStations
    \/ WalkRoute

SpecRoute == InitRoute /\ [][NextRoute]_vars

\* The routes of one ref, of a city without route_master relations
MergeRoutes == \E el \in SameRefRelations : ExtractRoute(el)

NextMerge ==
    \/ CityAdd
    \/ ExtractStations
    \/ MergeRoutes
    \/ FinishExtract

SpecMerge == InitRoute /\ [][NextMerge]_vars

\* A city with entrances, stop areas and stop_area_groups, extracted and validated
InitEntrances ==
    \E entrance \in Entrances : \E rels \in StopAreaRelations(entrance) :
        \E nets \in {{}, {"Metro"}} : InitCity(CityWorld(entrance, rels), nets)

ExtractLines == \E el \in CityLines : ExtractRoute(el)

NextCity ==
    \/ CityAdd
    \/ ExtractStations
    \/ ExtractLines
    \/ ExtractTransfers
    \/ FinishExtract
    \/ Validate

SpecCity == InitEntrances /\ [][NextCity]_vars

-----------------------------------------------------------------------------
(* The stop sequence of a Route *)

\* the stop areas the members of the relation of the Route built last resolve
\* to, when all of them resolve
Resolves(ms) == \A i \in 1..Len(ms) : Has(stations, el_id(ms[i]))

Resolved(ms) == [i \in 1..Len(ms) |-> stations[el_id(ms[i])][1]]

\* the Route built last is of a relation whose members resolve to the stop areas seq
BuiltFrom(seq) ==
    /\ built.route.id # None
    /\ Resolves(built.route.element.members)
    /\ Resolved(built.route.element.members) = seq

\* an error of the Route built last whose message is text
BuiltError(text) ==
    \E i \in 1..Len(errors) : errors[i][1] = text /\ errors[i][3] = built.route.id

DuplicateStop == "Duplicate stop in route - check stop/platform order"

Distinct(s) == \A i, j \in 1..Len(s) : i # j => s[i] # s[j]

\* C1 as stated: the stops of every Route built hold no stop twice, except that
\* the last may equal the first when the route is circular
C1_NoRepeatButClosure ==
    \A i, j \in 1..Len(built.route.stops) :
        i < j /\ built.route.stops[i] = built.route.stops[j]
            => built.is_circle /\ i = 1 /\ j = Len(built.route.stops)

\* C1, amended: the stops of every Route built without circular=yes hold no
\* stop twice; with circular=yes a stop may come back any number of times, but
\* never twice in a row
C1_StopsDistinctUnlessCircular ==
    /\ ~built.is_circle => Distinct(built.route.stops)
    /\ \A i \in 1..Len(built.route.stops) - 1 : built.route.stops[i] # built.route.stops[i + 1]

\* a route without circular=yes one of whose members came back to a stop that
\* is not the first, and was refused
C1_Witness ==
    /\ ~built.is_circle
    /\ Len(built.route.stops) >= 3
    /\ BuiltError(DuplicateStop)

\* C2 as stated: a route without circular=yes whose members resolve to A, B, A
\* records a Duplicate stop error and ends with stops = [A, B]
C2_DuplicateOnReturnToFirst ==
    ~built.is_circle /\ BuiltFrom(<<"n1", "n2", "n1">>)
        => built.route.stops = <<"n1", "n2">> /\ BuiltError(DuplicateStop)

\* C2, amended: a route without circular=yes whose members resolve to A, B, A
\* ends with stops = [A, B] and enough_stops = true and records no Duplicate
\* stop error; the error is recorded when the stop that comes back is not the
\* first one, as in A, B, C, B, which ends with stops = [A, B, C]
C2_ReturnToFirstClosesLoop ==
    /\ ~built.is_circle /\ BuiltFrom(<<"n1", "n2", "n1">>)
        => /\ built.route.stops = <<"n1", "n2">>
           /\ built.enough_stops
           /\ ~BuiltError(DuplicateStop)
    /\ ~built.is_circle /\ BuiltFrom(<<"n1", "n2", "n3", "n2">>)
        => /\ built.route.stops = <<"n1", "n2", "n3">>
           /\ ~built.enough_stops
           /\ BuiltError(DuplicateStop)

C2_Witness ==
    /\ ~built.is_circle
    /\ BuiltFrom(<<"n1", "n2", "n1">>)
    /\ built.enough_stops

\* C3 as stated: a route with circular=yes whose members resolve to A, B, A ends
\* with stops = [A, B], no Duplicate stop error and enough_stops = true
C3_CircularClosesLoop ==
    built.is_circle /\ BuiltFrom(<<"n1", "n2", "n1">>)
        => /\ built.route.stops = <<"n1", "n2">>
           /\ ~BuiltError(DuplicateStop)
           /\ built.enough_stops

\* C3, amended: a route with circular=yes whose members resolve to A, B, A ends
\* with stops = [A, B, A], the stop that comes back appended; it records no
\* Duplicate stop error, and enough_stops is false: no route with circular=yes
\* sets it
C3_CircularAppendsRepeat ==
    /\ built.is_circle /\ BuiltFrom(<<"n1", "n2", "n1">>)
        => /\ built.route.stops = <<"n1", "n2", "n1">>
           /\ ~BuiltError(DuplicateStop)
    /\ built.is_circle => ~built.enough_stops /\ ~BuiltError(DuplicateStop)

C3_Witness ==
    /\ built.is_circle
    /\ BuiltFrom(<<"n1", "n2", "n1">>)
    /\ Len(built.route.stops) = 3

-----------------------------------------------------------------------------
(* The routes of a RouteMaster *)

\* the Route built last is in the routes of a RouteMaster of the city
Filed(route) == \E k \in DOMAIN routes : InSeq(route, routes[k].routes)

IncompatibleMode == "Incompatible PT mode: master has and route has"

\* C4: the mode of a RouteMaster is the mode of every Route of its routes,
\* whether it has a route_master relation, with or without the tag
\* route_master, or none; a Route that was built is out of the routes of every
\* RouteMaster exactly when the error of its mode was recorded for it, and its
\* mode then differs from that of its RouteMaster
C4_ModeOfEveryRoute ==
    /\ \A k \in DOMAIN routes : \A i \in 1..Len(routes[k].routes) :
            routes[k].routes[i].mode = routes[k].mode
    /\ built.route.id # None /\ ~built.raised
            => (BuiltError(IncompatibleMode) <=> ~Filed(built.route))
    /\ BuiltError(IncompatibleMode) /\ Has(routes, MasterKey(built.route, masters))
            => routes[MasterKey(built.route, masters)].mode # built.route.mode

\* a Route refused by a RouteMaster that holds a Route of the other mode
C4_Witness ==
    /\ BuiltError(IncompatibleMode)
    /\ Has(routes, MasterKey(built.route, masters))
    /\ Len(routes[MasterKey(built.route, masters)].routes) >= 1
    /\ ~Filed(built.route)

NotInDataset == "for route relation is not in the dataset"

\* the relation has a member with role stop or platform that is in no stop
\* area and is no element of the city
HasMissingStop(relation) ==
    \E i \in 1..Len(relation.members) :
        /\ relation.members[i].role \in {"stop", "platform"}
        /\ ~Has(stations, el_id(relation.members[i]))
        /\ ~Has(elements, el_id(relation.members[i]))

\* C9: when a route relation has a member with role stop or platform that is
\* in no stop area and is no element of the city, the error is in the errors of
\* the city and the route is abandoned: it is in the routes of no RouteMaster,
\* so that its stops are no used stop areas
C9_MissingStopAbandonsRoute ==
    built.route.id # None /\ HasMissingStop(built.route.element)
        => /\ built.raised
           /\ BuiltError(NotInDataset)
           /\ \A k \in DOMAIN routes : \A i \in 1..Len(routes[k].routes) :
                    routes[k].routes[i].id # built.route.id

\* a route abandoned at its second member, after the first gave it a stop, in
\* a city that holds a RouteMaster
C9_Witness ==
    /\ built.raised
    /\ HasMissingStop(built.route.element)
    /\ Len(built.route.stops) = 1
    /\ DOMAIN routes # {}

RECURSIVE FirstNetwork(_)
\* the first network that is not None among the routes rs, in their order
FirstNetwork(rs) ==
    IF rs = <<>> THEN None
    ELSE IF Head(rs).network # None THEN Head(rs).network
    ELSE FirstNetwork(Tail(rs))

DifferentNetwork == "Route has different network from master"

\* C10: the routes of one ref of a city without route_master relation are the
\* routes of one RouteMaster, whose key is the ref; when it holds two routes or
\* more its network is the first network that is not null among its routes, in
\* the order of their addition, and each of its routes of another network that
\* is not null has an error recorded for it
C10_NetworkIsFirstOfRoutes ==
    \A k \in DOMAIN routes :
        ~routes[k].has_master /\ Len(routes[k].routes) >= 2
            => /\ \A i \in 1..Len(routes[k].routes) : routes[k].routes[i].ref = k
               /\ routes[k].network = FirstNetwork(routes[k].routes)
               /\ \A i \in 1..Len(routes[k].routes) :
                    (\E j \in 1..Len(errors) :
                        errors[j][1] = DifferentNetwork /\ errors[j][3] = routes[k].routes[i].id)
                    <=> routes[k].routes[i].network \notin {None, FirstNetwork(routes[k].routes)}

-----------------------------------------------------------------------------
(* The city after extract_routes and validate *)

\* extract_routes has returned
Extracted == pc = "built" \/ calls > 0

\* C5: after extract_routes every transfer of the city has at least 2 members,
\* and each of them is in the stops of some Route of some RouteMaster of the
\* routes of the city
C5_TransfersOfUsedStopAreas ==
    Extracted =>
        \A i \in 1..Len(transfers) :
            /\ Cardinality(transfers[i]) >= 2
            /\ \A sa \in transfers[i] :
                \E k \in DOMAIN routes : \E j \in 1..Len(routes[k].routes) :
                    InSeq(sa, routes[k].routes[j].stops)

\* the stop_area_group r21 of the stop areas A, B and C, when C is on no
\* route, left a transfer of 2
C5_Witness ==
    /\ Extracted
    /\ "r21" \in seen
    /\ transfers = << {"n1", "n2"} >>

\* the ids in the entrances and the exits of the stop areas of the city
AreaEntrances == UNION {areas[a].entrances \cup areas[a].exits : a \in DOMAIN areas}

\* the ids in the stops and platforms of the stop areas of the city
AreaStops == UNION {areas[a].stops_and_platforms : a \in DOMAIN areas}

\* the element is a node tagged railway=subway_entrance
IsEntranceNode(el) ==
    el.type = "node" /\ Has(el, "tags") /\ Tag(el, "railway") = "subway_entrance"

\* C6 as stated: after extract_routes and validate, used_entrances is the set
\* of the ids in the entrances and the exits of the stop areas
C6_UsedAreAreaEntrances ==
    calls > 0 => used_entrances = AreaEntrances

\* C6, amended: after extract_routes and validate, used_entrances is the set of
\* the nodes tagged railway=subway_entrance among the entrances, the exits and
\* the stops and platforms of the stop areas: an entrance that is no node is in
\* the entrances of its stop area and not in used_entrances, and a node tagged
\* as an entrance and as a platform is in used_entrances and in the entrances
\* of no stop area
C6_UsedAreEntranceNodesOfAreas ==
    calls > 0 =>
        used_entrances = {i \in AreaEntrances \cup AreaStops : IsEntranceNode(elements[i])}

\* a city validated whose entrance, in the exits of a stop area only, is used
C6_Witness ==
    /\ calls > 0
    /\ used_entrances = {"n30"}
    /\ \E a \in DOMAIN areas : "n30" \in areas[a].exits \ areas[a].entrances

StationsMessage == "Found stations in routes, expected"

\* the diagnostics validate emits
ValidateTexts ==
    { "unused stations", "Found entrances not used in routes or stop_areas",
      "subway entrances are not in stop_area relations", "Found subway lines, expected",
      "Found light rail lines, expected", StationsMessage, "Found interchanges, expected",
      "More than one network" }

FromValidate(m) == m[1] \in ValidateTexts

\* C7 as stated: a second call of validate leaves the errors, the warnings and
\* the built stations, routes and transfers as the first call left them
C7_SecondCallChangesNothing ==
    [][calls = 1 /\ calls' = 2
        => /\ errors' = errors
           /\ warnings' = warnings
           /\ UNCHANGED <<stations, areas, station_ids, routes, transfers>>]_vars

\* C7, amended: a second call of validate leaves the built stations, routes and
\* transfers, the counts validate found and used_entrances as the first call
\* left them, and appends to the errors and to the warnings, once more, the
\* messages the first call appended
C7_SecondCallRepeatsMessages ==
    [][calls = 1 /\ calls' = 2
        => /\ errors' = errors \o SelectSeq(errors, FromValidate)
           /\ warnings' = warnings \o SelectSeq(warnings, FromValidate)
           /\ UNCHANGED <<stations, areas, station_ids, routes, transfers, found,
                          used_entrances>>]_vars

\* a city validated twice, with an error and a warning of validate
C7_Witness ==
    /\ calls = 2
    /\ Len(SelectSeq(errors, FromValidate)) >= 2
    /\ Len(SelectSeq(warnings, FromValidate)) >= 2

\* the number of messages of the log with this text
Count(log, text) == Cardinality({i \in 1..Len(log) : log[i][1] = text})

\* C8: when the number of stations validate found differs from the expected
\* one, validate emits exactly one message of it: a warning when
\* 0 <= (expected - found) / expected <= 0.02, and an error otherwise
C8_OneDiagnosticOnMismatch ==
    calls = 1 /\ found.found_stations # expect.num_stations
        => /\ Count(warnings, StationsMessage) + Count(errors, StationsMessage) = 1
           /\ Count(warnings, StationsMessage) = 1
                <=> /\ expect.num_stations > 0
                    /\ expect.num_stations - found.found_stations >= 0
                    /\ 50 * (expect.num_stations - found.found_stations) <= expect.num_stations

-----------------------------------------------------------------------------
(* The best Route of a RouteMaster *)

\* the place of the Route best refers to in the routes of the RouteMaster, 0
\* when it is in none
BestPlace(rm) ==
    IF \E i \in 1..Len(rm.routes) : rm.routes[i].id = rm.best
    THEN CHOOSE i \in 1..Len(rm.routes) : rm.routes[i].id = rm.best
    ELSE 0

\* C11: the best of every RouteMaster that has routes is one of its routes, no
\* route of it has more stops, and no route added before it has as many stops,
\* routes without stops included
C11_BestIsFirstLongest ==
    \A k \in DOMAIN routes :
        Len(routes[k].routes) > 0
            => /\ BestPlace(routes[k]) > 0
               /\ \A i \in 1..Len(routes[k].routes) :
                    /\ Len(routes[k].routes[i].stops)
                            <= Len(routes[k].routes[BestPlace(routes[k])].stops)
                    /\ Len(routes[k].routes[i].stops)
                            = Len(routes[k].routes[BestPlace(routes[k])].stops)
                        => BestPlace(routes[k]) <= i

-----------------------------------------------------------------------------
(* The stop areas of the stations *)

\* the element is a stop_area relation
IsStopAreaRelation(el) ==
    /\ el.type = "relation"
    /\ Has(el, "tags")
    /\ Has(el, "members")
    /\ Tag(el, "public_transport") = "stop_area"

\* the members of the relation that are stations of the city
StationMembers(relation) ==
    {k \in {el_id(relation.members[i]) : i \in 1..Len(relation.members)} :
        Has(elements, k) /\ Has(elements[k], "tags") /\ is_station(elements[k])}

MultipleStations == "Stop area has multiple stations"

\* C12: when a stop_area relation lists two stations, the first loop of
\* extract_routes leaves one StopArea of the id of the relation, of one of the
\* two stations and indexed once; the error 'Stop area has multiple stations'
\* is recorded for the relation, and the other station is the id of no
\* StopArea and no key of city.stations
C12_OneStopAreaOfTwoStations ==
    pc # "ingest" =>
        \A k \in DOMAIN elements :
            IsStopAreaRelation(elements[k]) /\ Cardinality(StationMembers(elements[k])) = 2
                => /\ Has(areas, k)
                   /\ areas[k].id = k
                   /\ areas[k].station \in StationMembers(elements[k])
                   /\ stations[k] = <<k>>
                   /\ stations[areas[k].station] = <<k>>
                   /\ \E i \in 1..Len(errors) :
                        errors[i][1] = MultipleStations /\ errors[i][3] = k
                   /\ \A o \in StationMembers(elements[k]) \ {areas[k].station} :
                        /\ o \in station_ids
                        /\ ~Has(areas, o)
                        /\ ~Has(stations, o)

\* the stop_area relation r40 of the stations A and B, extracted: its StopArea
\* is that of A
C12_Witness ==
    /\ pc # "ingest"
    /\ Has(elements, "r40")
    /\ StationMembers(elements["r40"]) = {"n1", "n2"}
    /\ Has(areas, "r40")
    /\ areas["r40"].station = "n1"

\* the centers of the elements of the stops and platforms of a StopArea
PlatformCenters(sa) ==
    {el_center(elements[sp]) : sp \in sa.stops_and_platforms} \ {NoCenter}

\* the coordinate i of the center sum / n is the coordinate i of the point p,
\* is at least that of p, is at most that of p
CenterAt(c, p, i) == c.sum[i] = c.n * p[i]

CenterFrom(c, p, i) == c.sum[i] >= c.n * p[i]

CenterUpTo(c, p, i) == c.sum[i] <= c.n * p[i]

\* C13: the center of a StopArea without stops and platforms is the center of
\* its station; that of any other is the mean of the centers of its stops and
\* platforms, the sum of them over their number, and each of its coordinates
\* is between the least and the largest of theirs
C13_CenterIsMeanOfPlatforms ==
    pc # "ingest" =>
        \A a \in DOMAIN areas : \A i \in 1..2 :
            IF areas[a].stops_and_platforms = {}
            THEN CenterAt(areas[a].center, el_center(elements[areas[a].station]), i)
            ELSE /\ areas[a].center.sum = SumCenters(areas[a].stops_and_platforms, elements)
                 /\ areas[a].center.n
                        = Cardinality({sp \in areas[a].stops_and_platforms :
                                          el_center(elements[sp]) # NoCenter})
                 /\ \E p \in PlatformCenters(areas[a]) : CenterFrom(areas[a].center, p, i)
                 /\ \E p \in PlatformCenters(areas[a]) : CenterUpTo(areas[a].center, p, i)

InterchangesMessage == "Found interchanges, expected"

\* C14: every call of validate runs to its end, whatever the city and the
\* expected totals: it leaves all its counts, each mismatch of the stations or
\* of the interchanges is one warning or one error of each call, and a mismatch
\* of the interchanges when none is expected is a warning
C14_ValidateCompletes ==
    calls > 0 =>
        /\ pc = "built"
        /\ Has(found, "found_interchanges") /\ Has(found, "found_networks")
        /\ found.found_stations # expect.num_stations
            => Count(warnings, StationsMessage) + Count(errors, StationsMessage) = calls
        /\ found.found_interchanges # expect.num_interchanges
            => Count(warnings, InterchangesMessage) + Count(errors, InterchangesMessage) = calls
        /\ found.found_interchanges # expect.num_interchanges /\ expect.num_interchanges = 0
            => Count(warnings, InterchangesMessage) = calls

-----------------------------------------------------------------------------
(* The members of a route that are in no stop area *)

UnderConstruction == "An under construction stop or platform in route"

MissingStation == "Missing station=mode on a stop or platform"

NotConnected == "is not connected to a station in route"

\* the member is a stop or a platform, in no stop area, and its element has a
\* construction key
ConstructionMember(m) ==
    /\ m.role \in {"stop", "platform"}
    /\ ~Has(stations, el_id(m))
    /\ Has(elements, el_id(m))
    /\ Has(elements[el_id(m)], "tags")
    /\ HasConstructionKey(Tags(elements[el_id(m)]))

\* the number of errors with this text recorded for this element
ErrorsFor(text, el) ==
    Cardinality({i \in 1..Len(errors) : errors[i][1] = text /\ errors[i][3] = el})

\* C15: each member of the route built that is a stop or a platform in no stop
\* area, and whose element has a construction key, has one error, the 'under
\* construction' one, for each of its places in the relation: neither the
\* 'Missing station' error nor the 'not connected' error is recorded for it
C15_OneErrorUnderConstruction ==
    built.route.id # None =>
        \A i \in 1..Len(built.route.element.members) :
            ConstructionMember(built.route.element.members[i])
                => /\ ErrorsFor(UnderConstruction, el_id(built.route.element.members[i]))
                        = Cardinality({j \in 1..Len(built.route.element.members) :
                                          built.route.element.members[j]
                                              = built.route.element.members[i]})
                   /\ ErrorsFor(MissingStation, el_id(built.route.element.members[i])) = 0
                   /\ \A j \in 1..Len(errors) :
                        errors[j][1] = NotConnected
                            => errors[j][2] # el_id(built.route.element.members[i])

-----------------------------------------------------------------------------
(* The Route a RouteMaster rejects *)

\* C16: the step of extract_routes whose Route the RouteMaster rejects for its
\* mode leaves the routes of the city, and so every attribute of every
\* RouteMaster, as they were, and records the error
C16_RejectedAddChangesNothing ==
    [][seen' # seen /\ built'.route.id \notin {None, built.route.id}
            /\ (\E i \in 1..Len(errors') :
                    errors'[i][1] = IncompatibleMode /\ errors'[i][3] = built'.route.id)
        => routes' = routes]_vars

=============================================================================
